---- MODULE Spec2Model ----
(***************************************************************************)
(* Reverse delay for the Daisy Seed (ReverseDelay.cpp): the per-sample     *)
(* loop body of AudioCallback (two backward-reading segments over a ring   *)
(* buffer, the lead/lag handoff, the crossfade ramp) and the control       *)
(* polling loop of main.                                                   *)
(*                                                                         *)
(* Sizes are scaled down so that the state space is finite and small; the  *)
(* relations between them are those of the source:                         *)
(*      source                         here                                *)
(*      kSampleRate = 48000            kSampleRate = 25                    *)
(*      kFadeTime   = 9600             kFadeTime   = 10                    *)
(*      480 (guard in lines 20, 21)    GuardSamps  = 1                     *)
(* Everything else is derived from these three exactly as in the source.   *)
(* As in the source, kFadeTime > guard, kFadeTime is not a power of two    *)
(* (so 1/kFadeTime is not a binary fraction), the segment length L is      *)
(* about half the buffer, and L - kFadeTime > kFadeTime + 1.               *)
(***************************************************************************)
EXTENDS Integers, Sequences, FiniteSets, TLC

VARIABLES
    delayTimeSec,   \* float delayTimeSec, in units of 1/(65536*kSampleRate) s
    feedback,       \* float feedback, in units of 1/65536
    wetMix,         \* float wetMix, in units of 1/65536
    delayBuffer,    \* float delayBuffer[kBufferSize]
    writePos,       \* size_t writePos
    fade,           \* float fade, in units of one ulp of kFadeStep
    fadeCount,      \* size_t fadeCount
    fading,         \* bool fading
    fadeSwap,       \* bool fadeSwap
    xfadePos,       \* xfade's position (0.5f after xfade.Init(), then what
                    \* xfade.SetPos was last given), same unit as fade
    segA, segB,     \* Segment segA, segB
    aLag,           \* Segment::aLag
    startup,        \* bool startup
    blockIdx,       \* i of the for loop in AudioCallback (0: no callback running)
    mainPc,         \* the statement main's while(1) loop is at
    pendingStores,  \* the stores of lines 224-226 main has yet to perform
    adc0, adc1, adc2,  \* the locals of main's loop body
    out,            \* out[0][i] of the last iteration, in half units of fade
    impulses,       \* number of non-zero input samples fed so far
    nsamp,          \* observer: per-sample iterations completed (saturating)
    toggles,        \* observer: assignments to Segment::aLag so far (saturating)
    obs             \* observer: what the last per-sample iteration did

vars == << delayTimeSec, feedback, wetMix, delayBuffer, writePos, fade, fadeCount,
           fading, fadeSwap, xfadePos, segA, segB, aLag, startup, blockIdx,
           mainPc, pendingStores, adc0, adc1, adc2, out, impulses, nsamp,
           toggles, obs >>

----------------------------------------------------------------------------
(* Sizes of the model *)

kSampleRate == 25

kFadeTime == 10

GuardSamps == 1

\* how many non-zero samples the input stream may carry
MaxImpulses == 1

(* Constants of the program *)

\* hw.SetAudioBlockSize(4)
kAudioBlockSize == 4

\* the divisor of the ADC readings in main, 65536.0f
kAdcScale == 65536

\* the shipped values of kSampleRate, kFadeTime and the guard
SrcSampleRate == 48000

SrcFadeTime == 9600

SrcGuardSamps == 480

BufferSizeOf(rate) == 2 * rate
MinDelaySampsOf(fadeTime, guard) == fadeTime + guard
MaxDelaySampsOf(rate, guard) == BufferSizeOf(rate) - guard

kBufferSize == BufferSizeOf(kSampleRate)
kMinDelaySamps == MinDelaySampsOf(kFadeTime, GuardSamps)
kMaxDelaySamps == MaxDelaySampsOf(kSampleRate, GuardSamps)

\* seconds are counted in units of 1/(kAdcScale*kSampleRate) s, in which both
\* reading / 65536.0f (lines 224-226) and a whole number of half samples are
\* whole numbers; one sample period is kAdcScale units
kMinDelaySec == kAdcScale * kMinDelaySamps
kMaxDelaySec == kAdcScale * kMaxDelaySamps

----------------------------------------------------------------------------
(* float arithmetic of the fade ramp: IEEE binary32, round to nearest even. *)
(* A value is an integer number of units, one unit being the ulp of         *)
(* kFadeStep; 0.0f, 1.0f, kFadeStep and every sum or difference the ramp    *)
(* forms are whole numbers of units.                                        *)

RECURSIVE Pow2(_)
Pow2(n) == IF n <= 0 THEN 1 ELSE 2 * Pow2(n - 1)

RECURSIVE CeilLog2From(_, _)
CeilLog2From(n, k) == IF Pow2(k) >= n THEN k ELSE CeilLog2From(n, k + 1)

\* 1/kFadeTime lies in [2^-FadeExp, 2^(1-FadeExp))
FadeExp == CeilLog2From(kFadeTime, 0)

kMantissa == Pow2(24)

\* a >= 0 rounded to the nearest multiple of q, ties to the even multiple
RoundToMultiple(a, q) ==
    LET d == a \div q
        r == a % q
    IN  IF 2 * r < q THEN d * q
        ELSE IF 2 * r > q THEN (d + 1) * q
        ELSE IF d % 2 = 0 THEN d * q ELSE (d + 1) * q

RECURSIVE UlpFrom(_, _)
UlpFrom(a, q) == IF a \div q < kMantissa THEN q ELSE UlpFrom(a, 2 * q)

\* the binary32 value nearest to x units
Float32(x) ==
    IF x >= 0 THEN RoundToMultiple(x, UlpFrom(x, 1))
    ELSE 0 - RoundToMultiple(0 - x, UlpFrom(0 - x, 1))

FloatZero == 0
FloatOne == Pow2(FadeExp + 23)
FloatHalf == FloatOne \div 2

\* the quotient a / b (a >= 0, b > 0) rounded to the nearest integer, ties to even
RoundDiv(a, b) ==
    LET d == a \div b
        r == a % b
    IN  IF 2 * r < b THEN d
        ELSE IF 2 * r > b THEN d + 1
        ELSE IF d % 2 = 0 THEN d ELSE d + 1

\* constexpr float kFadeStep = 1.0f / float(kFadeTime): a 24-bit mantissa
kFadeStep == RoundDiv(FloatOne, kFadeTime)

FadeUp(f) == Float32(f + kFadeStep)
FadeDown(f) == Float32(f - kFadeStep)

----------------------------------------------------------------------------
(* Helpers *)

\* mutant: the decrement without the wrap at 0
wrapDecNoWrap(x) == x - 1

wrapDec(x) == IF x = 0 THEN kBufferSize - 1 ELSE x - 1

\* float -> size_t when a float delay length (in 1/kAdcScale samples) is passed as
\* the size_t parameter len of StartSegment: the fraction is dropped
ToSizeT(samples) == samples \div kAdcScale

\* mutant: line 103 without the * 0.5f
HardDelayNoHalf == kMinDelaySec + (kMaxDelaySec - kMinDelaySec)

\* line 103: (kMinDelaySec + (kMaxDelaySec - kMinDelaySec)) * 0.5f.  Computed
\* exactly; the binary32 computation of lines 24, 25, 103 and 104 gives the
\* same length after truncation for the shipped sizes (47760) and for the
\* sizes of the model.
HardDelayTimeSec == (kMinDelaySec + (kMaxDelaySec - kMinDelaySec)) \div 2

\* mutant: line 103 absent, the callback uses the value main stored
CallbackDelayKeep(found) == found

\* line 103, the value AudioCallback leaves in delayTimeSec given the value
\* it finds there
CallbackDelayTimeSec(found) == HardDelayTimeSec

\* line 104: float delayTimeSamp = delayTimeSec * kSampleRate, in units of
\* 1/kAdcScale sample
DelayTimeSamp(sec) == sec

\* lines 224-226: reading / 65536.0f, as seconds and as a plain ratio
AdcToSec(reading) == reading * kSampleRate
AdcToRatio(reading) == reading

\* the segment length the callback uses
SegLen == ToSizeT(DelayTimeSamp(HardDelayTimeSec))

----------------------------------------------------------------------------
(* Segment engine *)

SegNames == {"A", "B"}

\* Segment segA{}, segB{}: value-initialised
ZeroSegment == [head |-> 0, start |-> 0, len |-> 0, played |-> 0, active |-> FALSE]

Seg(m, n) == IF n = "A" THEN m.segA ELSE m.segB
WithSeg(m, n, s) == IF n = "A" THEN [m EXCEPT !.segA = s] ELSE [m EXCEPT !.segB = s]

\* mutant: StartSegment leaves Segment::aLag alone
StartSegmentLagKeep(lag) == lag

\* the assignment to Segment::aLag in StartSegment
StartSegmentLag(lag) == ~lag

\* StartSegment(s, currentWrite, len) on segment n of machine state m
StartSegment(m, n, currentWrite, len) ==
    [ WithSeg(m, n, [head |-> currentWrite, start |-> currentWrite, len |-> len,
                     played |-> 0, active |-> TRUE])
      EXCEPT !.aLag = StartSegmentLag(m.aLag),
             !.flips = m.flips + 1,
             !.starts = Append(m.starts, n),
             !.last = n,
             !.startedOver = IF Seg(m, n).active THEN m.startedOver \cup {n}
                                                 ELSE m.startedOver,
             !.freshA = IF n = "A" THEN {} ELSE m.freshA,
             !.freshB = IF n = "B" THEN {} ELSE m.freshB ]

\* mutant: DeactivateSegment without its s.active = false
DeactivateSegmentKeepActive(s) == [ZeroSegment EXCEPT !.active = s.active]

DeactivateSegment(s) == ZeroSegment

\* StepSegment: the sample read and the segment after the step
StepSegmentValue(s, buf) == buf[s.head]
StepSegment(s) == [s EXCEPT !.head = wrapDec(s.head), !.played = s.played + 1]

\* mutant: the fade window added on the wrong side of the comparison
NearEndLate(s) == s.played >= s.len + kFadeTime

\* mutant: > for >=
NearEndStrict(s) == s.played + kFadeTime > s.len

\* lines 168 and 177: the lagging segment is within kFadeTime of its end
NearEnd(s) == s.played + kFadeTime >= s.len

\* mutant: a segment retired one sample before it has played len samples
ExpiredEarly(s) == s.played + 1 >= s.len

\* mutant: > for >= in lines 185 and 189
ExpiredLate(s) == s.played > s.len

\* lines 185 and 189
Expired(s) == s.played >= s.len

----------------------------------------------------------------------------
(* One iteration of the for loop of AudioCallback, stage by stage.  m is    *)
(* the machine state: the globals, the locals delayTimeSamp, yA, yB, and    *)
(* the record of what the iteration has done so far.                        *)

\* lines 103-104
DelayStage(m) ==
    LET sec == CallbackDelayTimeSec(m.delayTimeSec)
    IN  [m EXCEPT !.found = m.delayTimeSec, !.delayTimeSec = sec,
                  !.delayTimeSamp = DelayTimeSamp(sec)]

\* lines 106-112
StartupStage(m) ==
    IF m.startup
    THEN [ StartSegment([m EXCEPT !.segA = DeactivateSegment(m.segA),
                                  !.segB = DeactivateSegment(m.segB)],
                        "A", m.writePos, ToSizeT(m.delayTimeSamp))
           EXCEPT !.startup = FALSE, !.startupRan = TRUE ]
    ELSE m

\* observer: the cells written since segment n was started
FreshOf(m, n) == IF n = "A" THEN m.freshA ELSE m.freshB

\* yX = StepSegment(segX, delayBuffer)
StepInto(m, n) ==
    LET s == Seg(m, n)
        y == StepSegmentValue(s, m.delayBuffer)
        m1 == WithSeg(m, n, StepSegment(s))
        m2 == IF n = "A" THEN [m1 EXCEPT !.yA = y] ELSE [m1 EXCEPT !.yB = y]
    IN  [m2 EXCEPT !.stepped = Append(m.stepped, n),
                   !.steppedInactive = IF s.active THEN m.steppedInactive
                                       ELSE m.steppedInactive \cup {n},
                   !.staleReads = IF s.head \in FreshOf(m, n)
                                  THEN m.staleReads \cup {n} ELSE m.staleReads]

\* mutant: the first if without its && !segB.active
StepOnlyALoose(m) ==
    IF m.segA.active THEN [StepInto(m, "A") EXCEPT !.yB = 0] ELSE m

\* lines 114-136: the four ifs in order
StepOnlyA(m) ==
    IF m.segA.active /\ ~m.segB.active THEN [StepInto(m, "A") EXCEPT !.yB = 0] ELSE m
StepOnlyB(m) ==
    IF m.segB.active /\ ~m.segA.active THEN StepInto([m EXCEPT !.yA = 0], "B") ELSE m
StepBoth(m) ==
    IF m.segA.active /\ m.segB.active THEN StepInto(StepInto(m, "A"), "B") ELSE m
StepNone(m) ==
    IF ~m.segA.active /\ ~m.segB.active THEN [m EXCEPT !.yA = 0, !.yB = 0] ELSE m

StepStage(m) ==
    LET r == StepNone(StepBoth(StepOnlyB(StepOnlyA([m EXCEPT !.yA = 0, !.yB = 0]))))
    IN  [r EXCEPT !.afterStepA = r.segA, !.afterStepB = r.segB]

\* mutant: the crossfade is ended in the iteration whose increment brings
\* fadeCount to kFadeTime
FadeStageEager(m) ==
    IF m.fading
    THEN LET p == [m EXCEPT !.xfadePos = m.fade]
             q == [p EXCEPT !.fade = IF ~p.fadeSwap THEN FadeUp(p.fade)
                                                     ELSE FadeDown(p.fade),
                            !.fadeCount = p.fadeCount + 1]
         IN  IF q.fadeCount < kFadeTime
             THEN q
             ELSE [q EXCEPT !.fading = FALSE, !.fadeCount = 0,
                            !.fadeSwap = ~p.fadeSwap, !.fadeEnded = TRUE]
    ELSE m

\* lines 140-158
FadeStage(m) ==
    IF m.fading
    THEN LET p == [m EXCEPT !.xfadePos = m.fade]
         IN  IF p.fadeCount < kFadeTime
             THEN [p EXCEPT !.fade = IF ~p.fadeSwap THEN FadeUp(p.fade)
                                                     ELSE FadeDown(p.fade),
                            !.fadeCount = p.fadeCount + 1]
             ELSE [p EXCEPT !.fading = FALSE, !.fadeCount = 0,
                            !.fadeSwap = ~p.fadeSwap, !.fadeEnded = TRUE]
    ELSE m

\* CrossFade::Process of DaisySP with the linear curve xfade.Init() selects:
\* in1 * (1.0f - pos_) + in2 * pos_.  The samples of the model are 0 and 1,
\* so the two products are exact.
XfadeProcess(in1, in2, pos) ==
    Float32(in1 * Float32(FloatOne - pos) + in2 * pos)

\* line 160
MixStage(m) == [m EXCEPT !.output = XfadeProcess(m.yA, m.yB, m.xfadePos)]

\* mutant: + for * in line 162, in + 0.5 + output
OutSampleSum(in, output) == Float32(2 * FloatOne * in + FloatOne + 2 * output)

\* line 162: in + (0.5 * output), formed in double (exact) and rounded to
\* float by the store; in half units
OutSample(in, output) == Float32(2 * FloatOne * in + output)

\* line 162
OutputStage(m, in) == [m EXCEPT !.out = OutSample(in, m.output), !.in = in]

\* mutant: the sample stored one cell ahead of writePos
WriteStageAhead(m, in) ==
    [m EXCEPT !.delayBuffer[(m.writePos + 1) % kBufferSize] = in,
              !.readsAtWrite = Len(m.stepped)]

\* line 164
WriteStage(m, in) ==
    [m EXCEPT !.delayBuffer[m.writePos] = in,
              !.freshA = IF m.segA.active THEN m.freshA \cup {m.writePos}
                                          ELSE m.freshA,
              !.freshB = IF m.segB.active THEN m.freshB \cup {m.writePos}
                                          ELSE m.freshB,
              !.readsAtWrite = Len(m.stepped)]

\* observer: the near-expiry condition of segment n is evaluated (the && of
\* lines 168 and 177 evaluates it only when fading is false)
Tested(m, n) ==
    IF m.fading THEN m
    ELSE [m EXCEPT !.tested = n, !.lastBefore = m.last,
                   !.testedActive = Seg(m, n).active]

\* lines 166-183
TriggerStage(m) ==
    IF m.aLag
    THEN IF ~m.fading /\ NearEnd(m.segB)
         THEN StartSegment([Tested(m, "B") EXCEPT !.fading = TRUE,
                                                  !.fade = FloatOne,
                                                  !.trigger = "B"],
                           "A", m.writePos, ToSizeT(m.delayTimeSamp))
         ELSE Tested(m, "B")
    ELSE IF ~m.fading /\ NearEnd(m.segA)
         THEN StartSegment([Tested(m, "A") EXCEPT !.fading = TRUE,
                                                  !.fade = FloatZero,
                                                  !.trigger = "A"],
                           "B", m.writePos, ToSizeT(m.delayTimeSamp))
         ELSE Tested(m, "A")

\* lines 185-192
RetireStage(m) ==
    LET m1 == IF Expired(m.segA)
              THEN [m EXCEPT !.segA = DeactivateSegment(m.segA),
                             !.retired = IF m.segA.active THEN m.retired \cup {"A"}
                                                          ELSE m.retired]
              ELSE m
    IN  IF Expired(m1.segB)
        THEN [m1 EXCEPT !.segB = DeactivateSegment(m1.segB),
                        !.retired = IF m1.segB.active THEN m1.retired \cup {"B"}
                                                      ELSE m1.retired]
        ELSE m1

\* line 194
AdvanceStage(m) == [m EXCEPT !.writePos = (m.writePos + 1) % kBufferSize]

\* mutant: the trigger stage (lines 166-183) moved ahead of the stepping stage
IterationTriggerFirst(m, in) ==
    LET m1 == DelayStage(m)
        m2 == StartupStage(m1)
        m3 == TriggerStage(m2)
        m4 == StepStage(m3)
        m5 == OutputStage(MixStage(FadeStage(m4)), in)
        m6 == WriteStage(m5, in)
        m7 == RetireStage(m6)
    IN  AdvanceStage(m7)

\* lines 103-194 in order, on input sample in
Iteration(m, in) ==
    LET m1 == DelayStage(m)
        m2 == StartupStage(m1)
        m3 == StepStage(m2)
        m4 == OutputStage(MixStage(FadeStage(m3)), in)
        m5 == WriteStage(m4, in)
        m6 == TriggerStage(m5)
        m7 == RetireStage(m6)
    IN  AdvanceStage(m7)

----------------------------------------------------------------------------
(* State machine *)

\* the input stream: silence and a unit impulse
InputValues == {0, 1}

\* the readings hw.adc.Get may return in the model: 0 and a quarter of full scale
AdcValues == {0, kAdcScale \div 4}

\* float delayTimeSec = 0.25f
InitDelayTimeSec == (kAdcScale * kSampleRate) \div 4
\* float wetMix = 0.5f
InitWetMix == kAdcScale \div 2

\* the observer counters stop counting here
NsampCap == 2 * kBufferSize + 1
ToggleCap == 3

Min(a, b) == IF a < b THEN a ELSE b

NoObs == [startupRan |-> FALSE, starts |-> << >>, stepped |-> << >>, flips |-> 0,
          retired |-> {}, trigger |-> "none", found |-> 0,
          afterStepA |-> ZeroSegment, afterStepB |-> ZeroSegment,
          yA |-> 0, yB |-> 0,
          in |-> 0, output |-> 0,
          tested |-> "none", testedActive |-> FALSE, lastBefore |-> "none",
          last |-> "none", age |-> NsampCap,
          fadeEnded |-> FALSE, swapBefore |-> FALSE,
          freshA |-> {}, freshB |-> {}, staleReads |-> {}, readsAtWrite |-> 0,
          startedOver |-> {}, steppedInactive |-> {}]

\* the machine state at the top of an iteration
Machine ==
    [delayTimeSec |-> delayTimeSec, delayTimeSamp |-> 0,
     delayBuffer |-> delayBuffer, writePos |-> writePos,
     fade |-> fade, fadeCount |-> fadeCount, fading |-> fading,
     fadeSwap |-> fadeSwap, xfadePos |-> xfadePos,
     segA |-> segA, segB |-> segB, aLag |-> aLag, startup |-> startup,
     startupRan |-> FALSE, starts |-> << >>, stepped |-> << >>, flips |-> 0,
     retired |-> {}, trigger |-> "none", found |-> 0,
     afterStepA |-> ZeroSegment, afterStepB |-> ZeroSegment, yA |-> 0, yB |-> 0,
     in |-> 0, output |-> 0, out |-> out,
     tested |-> "none", testedActive |-> FALSE, lastBefore |-> "none",
     last |-> obs.last, fadeEnded |-> FALSE, swapBefore |-> fadeSwap,
     freshA |-> obs.freshA, freshB |-> obs.freshB, staleReads |-> {},
     readsAtWrite |-> 0, startedOver |-> {}, steppedInactive |-> {}]

Init ==
    /\ delayTimeSec = InitDelayTimeSec
    /\ feedback = 0
    /\ wetMix = InitWetMix
    /\ delayBuffer = [i \in 0 .. kBufferSize - 1 |-> 0]
    /\ writePos = 0
    /\ fade = FloatZero
    /\ fadeCount = 0
    /\ fading = FALSE
    /\ fadeSwap = FALSE
    /\ xfadePos = FloatHalf
    /\ segA = ZeroSegment
    /\ segB = ZeroSegment
    /\ aLag = TRUE
    /\ startup = TRUE
    /\ blockIdx = 0
    /\ mainPc = "adc0"
    /\ pendingStores = {}
    /\ adc0 = 0
    /\ adc1 = 0
    /\ adc2 = 0
    /\ out = 0
    /\ impulses = 0
    /\ nsamp = 0
    /\ toggles = 0
    /\ obs = NoObs

\* one iteration of the loop of AudioCallback on input sample in
AudioSample(in) ==
    /\ in # 0 => impulses < MaxImpulses
    /\ \E r \in {Iteration(Machine, in)} :
           /\ delayTimeSec' = r.delayTimeSec
           /\ delayBuffer' = r.delayBuffer
           /\ writePos' = r.writePos
           /\ fade' = r.fade
           /\ fadeCount' = r.fadeCount
           /\ fading' = r.fading
           /\ fadeSwap' = r.fadeSwap
           /\ xfadePos' = r.xfadePos
           /\ segA' = r.segA
           /\ segB' = r.segB
           /\ aLag' = r.aLag
           /\ startup' = r.startup
           /\ out' = r.out
           /\ toggles' = Min(toggles + r.flips, ToggleCap)
           /\ obs' = [startupRan |-> r.startupRan, starts |-> r.starts,
                      stepped |-> r.stepped, flips |-> r.flips,
                      retired |-> r.retired, trigger |-> r.trigger,
                      found |-> r.found,
                      afterStepA |-> r.afterStepA, afterStepB |-> r.afterStepB,
                      yA |-> r.yA, yB |-> r.yB,
                      in |-> r.in, output |-> r.output,
                      tested |-> r.tested, testedActive |-> r.testedActive,
                      lastBefore |-> r.lastBefore, last |-> r.last,
                      age |-> IF r.trigger # "none" THEN 0
                              ELSE Min(obs.age + 1, NsampCap),
                      fadeEnded |-> r.fadeEnded, swapBefore |-> r.swapBefore,
                      freshA |-> r.freshA, freshB |-> r.freshB,
                      staleReads |-> r.staleReads,
                      readsAtWrite |-> r.readsAtWrite,
                      startedOver |-> r.startedOver,
                      steppedInactive |-> r.steppedInactive]
    /\ impulses' = IF in # 0 THEN impulses + 1 ELSE impulses
    /\ nsamp' = Min(nsamp + 1, NsampCap)
    /\ blockIdx' = (blockIdx + 1) % kAudioBlockSize
    /\ UNCHANGED << feedback, wetMix, mainPc, pendingStores, adc0, adc1, adc2 >>

\* main's loop runs only while no callback is executing: the callback is the
\* audio interrupt, which main cannot preempt
MainRuns == blockIdx = 0

engineVars == << delayBuffer, writePos, fade, fadeCount, fading, fadeSwap,
                 xfadePos, segA, segB, aLag, startup, blockIdx, out, impulses,
                 nsamp, toggles, obs >>

\* delayTimeSec, wetMix and feedback are plain globals that main stores and
\* the audio interrupt shares (line 103 writes delayTimeSec): the stores of
\* lines 224-226 race with the callback, so the build may perform them in any
\* order, each one any time after the reading it stores has been taken.
\* O2 builds store wetMix first, then delayTimeSec, then feedback.
StoreNames == {"delay", "wet", "fb"}

\* line 220
MainGetAdc0 ==
    /\ MainRuns /\ mainPc = "adc0"
    /\ \E v \in AdcValues : adc0' = v
    /\ mainPc' = "adc1"
    /\ pendingStores' = pendingStores \cup {"delay"}
    /\ UNCHANGED << engineVars, delayTimeSec, feedback, wetMix, adc1, adc2 >>

\* line 221
MainGetAdc1 ==
    /\ MainRuns /\ mainPc = "adc1"
    /\ \E v \in AdcValues : adc1' = v
    /\ mainPc' = "adc2"
    /\ pendingStores' = pendingStores \cup {"wet"}
    /\ UNCHANGED << engineVars, delayTimeSec, feedback, wetMix, adc0, adc2 >>

\* line 222; the loop body has only its stores left
MainGetAdc2 ==
    /\ MainRuns /\ mainPc = "adc2"
    /\ \E v \in AdcValues : adc2' = v
    /\ mainPc' = "stores"
    /\ pendingStores' = pendingStores \cup {"fb"}
    /\ UNCHANGED << engineVars, delayTimeSec, feedback, wetMix, adc0, adc1 >>

\* one of the stores of lines 224-226 is performed; after the last one the
\* loop body ends, the locals go out of scope and the loop starts over
StoreDone(name) ==
    /\ MainRuns /\ name \in pendingStores
    /\ pendingStores' = pendingStores \ {name}
    /\ IF mainPc = "stores" /\ pendingStores = {name}
       THEN mainPc' = "adc0" /\ adc0' = 0 /\ adc1' = 0 /\ adc2' = 0
       ELSE UNCHANGED << mainPc, adc0, adc1, adc2 >>

\* line 224
MainSetDelay ==
    /\ StoreDone("delay")
    /\ delayTimeSec' = AdcToSec(adc0)
    /\ UNCHANGED << engineVars, feedback, wetMix >>

\* line 225
MainSetWet ==
    /\ StoreDone("wet")
    /\ wetMix' = AdcToRatio(adc1)
    /\ UNCHANGED << engineVars, delayTimeSec, feedback >>

\* line 226
MainSetFeedback ==
    /\ StoreDone("fb")
    /\ feedback' = AdcToRatio(adc2)
    /\ UNCHANGED << engineVars, delayTimeSec, wetMix >>

\* the audio engine on an input stream with at most MaxImpulses impulses
Next == \E in \in InputValues : AudioSample(in)

Spec == Init /\ [][Next]_vars

\* the audio engine on silence together with main's control polling loop
NextCtl ==
    \/ AudioSample(0)
    \/ MainGetAdc0
    \/ MainGetAdc1
    \/ MainGetAdc2
    \/ MainSetDelay
    \/ MainSetWet
    \/ MainSetFeedback

SpecCtl == Init /\ [][NextCtl]_vars

TypeOK ==
    /\ writePos \in 0 .. kBufferSize - 1
    /\ fadeCount \in 0 .. kFadeTime
    /\ fading \in BOOLEAN /\ fadeSwap \in BOOLEAN /\ aLag \in BOOLEAN
    /\ startup \in BOOLEAN
    /\ blockIdx \in 0 .. kAudioBlockSize - 1
    /\ pendingStores \subseteq StoreNames
    /\ mainPc \in {"adc0", "adc1", "adc2", "stores"}

----------------------------------------------------------------------------
(* Properties *)

\* a step that is one iteration of the loop of AudioCallback
IterationStep == blockIdx' # blockIdx

InRange(i) == i \in 0 .. kBufferSize - 1

\* the segment a handoff of the last iteration started, if any
HandoffStarted ==
    IF obs.trigger = "A" THEN "B" ELSE IF obs.trigger = "B" THEN "A" ELSE "none"

SegOf(n) == IF n = "A" THEN segA ELSE segB
AfterStepOf(n) == IF n = "A" THEN obs.afterStepA ELSE obs.afterStepB

\* C1: once Startup has run, at the end of every per-sample iteration (which is
\* the state the stepping stage of the next iteration finds) at least one of
\* segA and segB is active; the segment length exceeds kFadeTime.
C1_NoSilentGap ==
    (~startup /\ SegLen > kFadeTime) => (segA.active \/ segB.active)

\* C1 witness: the old segment has just been retired in the middle of a
\* crossfade and the segment the handoff started carries on alone.
C1_Witness ==
    /\ ~startup /\ SegLen > kFadeTime
    /\ obs.retired = {"A"} /\ ~segA.active /\ segB.active /\ fading

\* C2: writePos, segA.head and segB.head are valid buffer indices in every
\* state, also right after the stepping stage, after a head at 0 has been
\* decremented and after a segment has been deactivated.
C2_IndexSafety ==
    /\ InRange(writePos)
    /\ InRange(segA.head) /\ InRange(segB.head)
    /\ InRange(obs.afterStepA.head) /\ InRange(obs.afterStepB.head)

\* C2 witness: segA was started at index 0 and stepped once, so its head
\* wrapped to kBufferSize - 1, while segB is deactivated.
C2_Witness ==
    /\ segA.active /\ segA.start = 0 /\ segA.played = 1
    /\ segA.head = kBufferSize - 1
    /\ ~segB.active /\ segB.head = 0

\* the endpoint a crossfade in progress is heading for
FadeTarget == IF fadeSwap THEN FloatZero ELSE FloatOne

\* C3 (as claimed): while a crossfade is in progress fadeCount is within
\* 0 .. kFadeTime, the position stays within [0, 1], and the position is
\* exactly the opposite endpoint when fadeCount equals kFadeTime; a handoff
\* begins a crossfade only when none is in progress (fadeCount is 0 then).
C3_CrossfadeCompletion ==
    /\ fadeCount \in 0 .. kFadeTime
    /\ fade >= FloatZero /\ fade <= FloatOne
    /\ (fading /\ fadeCount = kFadeTime) => fade = FadeTarget
    /\ obs.trigger # "none" => (fading /\ fadeCount = 0)

\* C4: a segment that is active after the stepping stage with played < len is
\* still active at the end of the iteration; one whose played count has
\* reached len is deactivated in that same iteration; no segment is retired
\* before its played count reaches its len; an active segment has
\* 0 <= played <= len, at the end of an iteration and right after the step.
C4_SegmentExpiry ==
    \A n \in SegNames :
        LET mid == AfterStepOf(n)
            now == SegOf(n)
        IN  /\ (mid.active /\ mid.played < mid.len) =>
                  (now.active /\ now.len = mid.len /\ now.played = mid.played
                   /\ n \notin obs.retired)
            /\ (mid.active /\ mid.played >= mid.len) =>
                  (~now.active /\ n \in obs.retired)
            /\ n \in obs.retired => (mid.active /\ mid.played = mid.len)
            /\ mid.active => (0 <= mid.played /\ mid.played <= mid.len)
            /\ now.active => (0 <= now.played /\ now.played <= now.len)

\* C4 witness: segA has played all of its SegLen samples and was retired in
\* the iteration in which its played count reached SegLen.
C4_Witness ==
    /\ "A" \in obs.retired /\ ~segA.active
    /\ obs.afterStepA.active /\ obs.afterStepA.played = SegLen
    /\ obs.afterStepA.len = SegLen

\* C5 (as claimed): Startup runs on global sample 0 and the first handoff
\* starts the second segment on global sample L - F, the first segment having
\* played L - F samples, and the flag has been toggled twice by sample L - F + 1.
C5_FirstHandoffAtLMinusF ==
    /\ nsamp = SegLen - kFadeTime =>
          (obs.starts = << >> /\ toggles = 1 /\ ~segB.active)
    /\ nsamp = SegLen - kFadeTime + 1 =>
          (obs.starts = << "B" >> /\ segB.active /\ segB.played = 0)
    /\ nsamp = SegLen - kFadeTime + 2 => toggles = 2

\* C5 (amended): Startup runs on global sample 0 and the first handoff starts
\* the second segment on global sample L - F - 1, at the end of which the
\* first segment has played L - F samples; the lead/lag flag has been toggled
\* once until then and exactly twice from then to sample L - F + 1.
C5_FirstHandoff ==
    /\ (nsamp >= 1 /\ nsamp < SegLen - kFadeTime) =>
          (toggles = 1 /\ ~segB.active /\ obs.trigger = "none")
    /\ nsamp = SegLen - kFadeTime =>
          /\ obs.starts = << "B" >> /\ obs.trigger = "A"
          /\ segB.active /\ segB.played = 0 /\ segB.len = SegLen
          /\ segA.active /\ segA.played = SegLen - kFadeTime
    /\ (nsamp >= SegLen - kFadeTime /\ nsamp <= SegLen - kFadeTime + 2) =>
          toggles = 2

\* C5 witness: iteration L - F - 1 has just completed and started segB.
C5_Witness ==
    /\ nsamp = SegLen - kFadeTime /\ SegLen > kFadeTime
    /\ obs.starts = << "B" >> /\ toggles = 2 /\ segA.played = SegLen - kFadeTime

\* C6: in every iteration Segment::aLag changes value exactly when a segment
\* is started, it is assigned once per start, and at most one segment is
\* started per iteration.
C6_Alternation ==
    [][ IterationStep =>
          /\ Len(obs'.starts) <= 1
          /\ obs'.flips = Len(obs'.starts)
          /\ (aLag' # aLag) <=> (Len(obs'.starts) = 1) ]_vars

\* C6 witness: a handoff has just started segB and flipped aLag to true once.
C6_Witness ==
    /\ obs.starts = << "B" >> /\ obs.flips = 1 /\ aLag /\ segB.played = 0

\* C7 (as claimed): a segment started in an iteration, by Startup or by a
\* handoff, is not stepped in that iteration: its played count is 0 at the end.
C7_StartedNotStepped ==
    \A n \in SegNames :
        (\E i \in 1 .. Len(obs.starts) : obs.starts[i] = n) => SegOf(n).played = 0

\* C7 (amended): a segment started by a handoff is not stepped in the
\* iteration that started it (played is 0 at its end, the first step comes in
\* a later sample); the segment Startup starts is stepped in that same
\* iteration (played is 1 at its end).
C7_HandoffStartedNotStepped ==
    /\ HandoffStarted # "none" =>
          /\ SegOf(HandoffStarted).active
          /\ SegOf(HandoffStarted).played = 0
          /\ SegOf(HandoffStarted).head = SegOf(HandoffStarted).start
          /\ ~AfterStepOf(HandoffStarted).active
    /\ obs.startupRan =>
          (obs.starts = << "A" >> /\ obs.stepped = << "A" >> /\ segA.played = 1)

\* C7 witness: a handoff has just started segA while segB, the lagging one,
\* was stepped.
C7_Witness ==
    /\ HandoffStarted = "A" /\ segA.played = 0 /\ segA.active
    /\ obs.stepped = << "B" >>

\* the capacity requirement on a configuration
CapacityFits(rate, fadeTime, guard) ==
    MaxDelaySampsOf(rate, guard) + fadeTime < BufferSizeOf(rate)

\* C8 (as claimed): the maximum supported delay length plus the fade window
\* fits strictly inside the buffer, kMaxDelaySamps + kFadeTime < kBufferSize,
\* for the buffer of the model and for the shipped sizes.
C8_CapacityRequirement ==
    /\ Cardinality(DOMAIN delayBuffer) = kBufferSize
    /\ kMaxDelaySamps + kFadeTime < Cardinality(DOMAIN delayBuffer)
    /\ CapacityFits(SrcSampleRate, SrcFadeTime, SrcGuardSamps)

\* C9: whatever main has stored in delayTimeSec, every segment started, at
\* Startup or at a handoff, has a length above kFadeTime and within
\* [kMinDelaySamps, kMaxDelaySamps].
C9_StartedLengthInRange ==
    \A n \in SegNames :
        (SegOf(n).active \/ (\E i \in 1 .. Len(obs.starts) : obs.starts[i] = n)) =>
            /\ SegOf(n).len > kFadeTime
            /\ SegOf(n).len >= kMinDelaySamps
            /\ SegOf(n).len <= kMaxDelaySamps

\* C9 witness: main had stored a delay time shorter than the fade window when
\* the callback ran Startup, and segA was started with the callback's length.
C9_Witness ==
    /\ obs.startupRan /\ obs.starts = << "A" >>
    /\ ToSizeT(DelayTimeSamp(obs.found)) <= kFadeTime
    /\ obs.found # InitDelayTimeSec
    /\ segA.active /\ segA.len = SegLen

\* C10 (as claimed): no iteration of AudioCallback changes delayTimeSec, wetMix
\* or feedback.
C10_CallbackOnlyReads ==
    [][ IterationStep =>
          /\ delayTimeSec' = delayTimeSec
          /\ wetMix' = wetMix
          /\ feedback' = feedback ]_vars

\* how many times the stepping stage of the last iteration stepped segment n
StepCount(n) == Cardinality({i \in 1 .. Len(obs.stepped) : obs.stepped[i] = n})

YOf(n) == IF n = "A" THEN obs.yA ELSE obs.yB

\* C11: StepSegment is never called on an inactive segment; in every iteration
\* a segment that is inactive at the stepping stage is not stepped and its
\* mixer input (yA for segA, yB for segB) is 0, and a segment that is active
\* at the stepping stage is stepped exactly once.
C11_StepOnlyActive ==
    /\ obs.steppedInactive = {}
    /\ \A n \in SegNames :
           /\ AfterStepOf(n).active => StepCount(n) = 1
           /\ ~AfterStepOf(n).active => (StepCount(n) = 0 /\ YOf(n) = 0)

\* C11 witness: segA alone was stepped while the cell under the head of the
\* inactive segB held a non-zero sample, and yB was 0 all the same.
C11_Witness ==
    /\ obs.stepped = << "A" >> /\ obs.afterStepA.active
    /\ ~obs.afterStepB.active /\ obs.in = 0
    /\ delayBuffer[obs.afterStepB.head] # 0 /\ obs.yB = 0

\* C12: as long as every input sample so far has been zero, the buffer holds
\* only zeros, the mixer output is zero and every output sample is zero,
\* however long the run and whatever handoffs and crossfades it has seen.
C12_SilenceInSilenceOut ==
    impulses = 0 =>
        /\ out = 0 /\ obs.output = 0 /\ obs.yA = 0 /\ obs.yB = 0
        /\ \A i \in DOMAIN delayBuffer : delayBuffer[i] = 0

\* C12 witness: more than 2 * kMaxDelaySamps samples of silence have been
\* processed, several handoffs are behind, and a crossfade with both segments
\* active is in progress.
C12_Witness ==
    /\ impulses = 0 /\ nsamp > 2 * kMaxDelaySamps /\ toggles >= 3
    /\ fading /\ segA.active /\ segB.active /\ fadeCount > 0
    /\ out = 0

OtherSeg(n) == IF n = "A" THEN "B" ELSE "A"

\* C13 (as claimed): in an iteration after the one that ran Startup in which
\* the near-expiry condition is evaluated (fading is false), the segment
\* tested is the one that was NOT most recently started, and a handoff starts
\* the other one.
C13_TestsNotLastStarted ==
    (obs.tested # "none" /\ ~obs.startupRan) =>
        /\ obs.tested # obs.lastBefore
        /\ obs.trigger # "none" => obs.starts = << OtherSeg(obs.tested) >>

\* C13 (amended): whenever the near-expiry condition is evaluated (fading is
\* false), the segment tested is the one that WAS most recently started, it is
\* active and the other segment is not; a handoff is fired by the tested
\* segment and starts the other one, which then is the most recently started.
C13_TestsLastStarted ==
    obs.tested # "none" =>
        /\ obs.tested = obs.lastBefore
        /\ obs.testedActive
        /\ ~AfterStepOf(OtherSeg(obs.tested)).active
        /\ obs.trigger # "none" =>
              /\ obs.trigger = obs.tested
              /\ obs.starts = << OtherSeg(obs.tested) >>
              /\ obs.last = OtherSeg(obs.tested)
        /\ obs.trigger = "none" => obs.last = obs.tested

\* C13 witness: outside a crossfade segB, started by the previous handoff, was
\* tested, was within kFadeTime of its end, and the handoff started segA.
C13_Witness ==
    /\ obs.tested = "B" /\ obs.lastBefore = "B" /\ obs.testedActive
    /\ obs.trigger = "B" /\ obs.starts = << "A" >> /\ ~obs.startupRan
    /\ segA.active /\ segA.played = 0 /\ segB.active

\* C14 (as claimed): a crossfade is ended in the very iteration in which
\* fadeCount reaches kFadeTime, so fadeCount never stands at kFadeTime at the
\* end of an iteration, and the iteration that ends the crossfade is the
\* kFadeTime-th after the handoff sample.
C14_EndsWhenCountReaches ==
    /\ fadeCount < kFadeTime
    /\ obs.fadeEnded => obs.age = kFadeTime

\* C14 (amended): during a crossfade fadeCount equals the number of samples
\* since the handoff sample and reaches kFadeTime with fading still true; the
\* crossfade is ended by the next iteration, sample kFadeTime + 1 after the
\* handoff, which sets fading false, resets fadeCount, flips fadeSwap and
\* leaves the position alone.  fadeSwap changes in no other iteration.
C14_EndsOneSampleLater ==
    /\ fading => (obs.age = fadeCount /\ fadeCount <= kFadeTime /\ ~obs.fadeEnded)
    /\ obs.fadeEnded =>
          /\ ~fading /\ fadeCount = 0
          /\ obs.age = kFadeTime + 1
          /\ fadeSwap = ~obs.swapBefore
          /\ xfadePos = fade
    /\ ~obs.fadeEnded => fadeSwap = obs.swapBefore
    /\ ~fading => (fadeCount = 0 /\ obs.age > kFadeTime)

\* C14 witness: the iteration kFadeTime + 1 samples after a handoff has just
\* ended the crossfade.
C14_Witness ==
    /\ obs.fadeEnded /\ ~fading /\ obs.age = kFadeTime + 1
    /\ fadeCount = 0 /\ fadeSwap /\ toggles >= 2

\* C15: whenever segA and segB are both active a crossfade is in progress, and
\* fewer than kFadeTime samples have passed since the handoff that started the
\* newer one: the older segment is retired by the kFadeTime-th sample after
\* that handoff, in the iteration in which its played count reaches its len.
C15_OverlapWithinFade ==
    /\ (segA.active /\ segB.active) => (fading /\ obs.age < kFadeTime)
    /\ (fading /\ obs.age >= kFadeTime) => ~SegOf(OtherSeg(obs.last)).active
    /\ (fading /\ obs.age = kFadeTime) => obs.retired = {OtherSeg(obs.last)}

\* C15 witness: the crossfade is in its last ramp step, kFadeTime samples
\* after the handoff; segA, the older segment, has just been retired and
\* segB alone is active.
C15_Witness ==
    /\ fading /\ obs.age = kFadeTime /\ fadeCount = kFadeTime
    /\ obs.retired = {"A"} /\ ~segA.active /\ segB.active
    /\ obs.stepped = << "A", "B" >>

\* the cells an active segment s has yet to read
RemainingReads(s) ==
    { (s.head + kBufferSize - k) % kBufferSize : k \in 0 .. s.len - s.played - 1 }

FreshNow(n) == IF n = "A" THEN obs.freshA ELSE obs.freshB

\* the segment length of the shipped sizes (line 103 with lines 20-25)
SrcSegLen == MaxDelaySampsOf(SrcSampleRate, SrcGuardSamps) \div 2

\* C16: with the segment length the callback uses, no step of a segment reads
\* a cell that was written after the segment was started; none of the cells
\* an active segment has yet to read has been written since its start (the
\* backward read head has not met the forward write cursor); in every
\* iteration all segment reads come before the buffer write.  Twice the
\* shipped segment length (47760) fits in the shipped buffer, as twice SegLen
\* fits in the buffer here.
C16_ReadsOlderThanStart ==
    /\ obs.staleReads = {}
    /\ \A n \in SegNames :
           SegOf(n).active => RemainingReads(SegOf(n)) \cap FreshNow(n) = {}
    /\ obs.readsAtWrite = Len(obs.stepped)
    /\ 2 * SrcSegLen <= BufferSizeOf(SrcSampleRate)

\* C16 witness: segB, started by a handoff, has read its last cell, a non-zero
\* sample, after SegLen cells had been written since its start, and none of
\* its reads met a cell written during its life.
C16_Witness ==
    /\ obs.retired = {"B"} /\ obs.afterStepB.played = SegLen
    /\ Cardinality(obs.freshB) = SegLen /\ obs.yB # 0
    /\ obs.staleReads = {} /\ obs.readsAtWrite = Len(obs.stepped)

\* C17: every iteration leaves the buffer as it was except for the cell at the
\* writePos the iteration found, which holds the raw input sample afterwards,
\* and advances writePos by one modulo kBufferSize; the reads, starts and
\* deactivations of the iteration leave every cell alone.
C17_WriteFrame ==
    [][ IterationStep =>
          /\ delayBuffer' = [delayBuffer EXCEPT ![writePos] = obs'.in]
          /\ writePos' = (writePos + 1) % kBufferSize
          /\ DOMAIN delayBuffer' = 0 .. kBufferSize - 1 ]_vars

\* C17 witness: a unit impulse has just been written to the last cell of the
\* buffer, all other cells still hold zeros, writePos has wrapped to 0, and
\* the iteration also stepped a segment.
C17_Witness ==
    /\ obs.in = 1 /\ writePos = 0 /\ delayBuffer[kBufferSize - 1] = 1
    /\ \A i \in 0 .. kBufferSize - 2 : delayBuffer[i] = 0
    /\ Len(obs.stepped) >= 1 /\ nsamp >= kBufferSize

\* C18: no StartSegment call, at Startup or at a handoff, is made on a segment
\* that is active at that moment; the segment a handoff starts was inactive
\* at the stepping stage of that iteration too; and the segment whose
\* near-expiry condition fired the handoff is active when it fires and still
\* active, with samples left to play, at the end of that iteration.
C18_StartOnlyInactive ==
    /\ obs.startedOver = {}
    /\ obs.trigger # "none" =>
          /\ HandoffStarted = OtherSeg(obs.trigger)
          /\ ~AfterStepOf(HandoffStarted).active
          /\ obs.tested = obs.trigger /\ obs.testedActive
          /\ SegOf(obs.trigger).active
          /\ SegOf(obs.trigger).played < SegOf(obs.trigger).len

\* C18 witness: the second handoff has just restarted segA, which had been
\* played to its end and deactivated before, fired by the still active segB.
C18_Witness ==
    /\ obs.trigger = "B" /\ obs.starts = << "A" >> /\ toggles >= 3
    /\ obs.startedOver = {} /\ obs.testedActive
    /\ ~obs.afterStepA.active /\ segA.active /\ segA.played = 0
    /\ segB.active /\ segB.played = SegLen - kFadeTime

\* the weight the mixer gives segment n at its present position: its output
\* for a unit sample from n and silence from the other segment
WeightOf(n) ==
    XfadeProcess(IF n = "A" THEN 1 ELSE 0, IF n = "B" THEN 1 ELSE 0, xfadePos)

\* C19 (as claimed): whenever Startup has run and no crossfade is in progress,
\* fade is exactly 0 if segA was started last (aLag false) and exactly 1 if
\* segB was started last (aLag true), fadeSwap equals aLag, and the mixer
\* passes the most recently started segment at weight 1 and the other at
\* weight 0.
C19_RestsAtEndpoint ==
    (~startup /\ ~fading) =>
        /\ (obs.last = "B") <=> aLag
        /\ fadeSwap = aLag
        /\ fade = IF aLag THEN FloatOne ELSE FloatZero
        /\ WeightOf(obs.last) = FloatOne
        /\ WeightOf(OtherSeg(obs.last)) = FloatZero

====
